---- MODULE Spec2Model ----
(***************************************************************************)
(* find_elevation_points.py: summits and via-ferrata segments are read     *)
(* from a map file, then main() runs run_query() in a loop.  One action    *)
(* per handler: main's start-up, run_query, and the "another query?"       *)
(* prompt; prompt() ends the process on end of input.                      *)
(*                                                                         *)
(* Coordinates are points of an integer grid whose unit is one kilometre;  *)
(* geopy's geodesic distance is modelled by the grid (taxicab) metric.     *)
(* Tag and input strings are tokens [k, v]: k says what the text looks     *)
(* like ("none" absent, "text" not a number, "int" an integer literal v,   *)
(* "dec" the decimal literal v.0).                                         *)
(***************************************************************************)
EXTENDS Integers, Sequences, FiniteSets, TLC

VARIABLES pc, map_file, peaks, vf_segments, loads, queries, q

vars == <<pc, map_file, peaks, vf_segments, loads, queries, q>>

(* ------------------------------ bounds -------------------------------- *)
MaxQueries == 2          \* queries run in one process
MaxSmallNodes == 2       \* nodes of an exhaustively enumerated map file
MaxWays == 1             \* ways of a map file
LargeN == 22             \* summits of the generated large map files

(* --------------------------- program constants ------------------------ *)
Inf == 1000000           \* float('inf'): above every grid distance
TopDominance == 20       \* dist_list[:20]
TopNearest == 10         \* dist_list[:10]

(* ------------------------------ tokens -------------------------------- *)
NoTag == [k |-> "none", v |-> 0]
Text == [k |-> "text", v |-> 0]
IntLit(n) == [k |-> "int", v |-> n]
DecLit(n) == [k |-> "dec", v |-> n]

\* float(s): integer and decimal literals parse, anything else raises
ParseFloat(t) == [ok |-> t.k \in {"int", "dec"}, val |-> t.v]

\* int(s): only an integer literal parses ("2.0" raises ValueError)
ParseInt(t) == [ok |-> t.k = "int", val |-> t.v]

\* str.lower() on the summit:cross values that occur
Lower(s) == CASE s = "YES" -> "yes" [] s = "Yes" -> "yes" [] OTHER -> s

\* input(...).strip().lower().startswith('y')
StartsWithY(s) == Lower(s) \in {"y", "yes"}

(* ----------------------------- geodesic ------------------------------- *)
Abs(x) == IF x < 0 THEN -x ELSE x

\* geodesic(a, b).kilometers
Kilometers(lat1, lon1, lat2, lon2) == Abs(lat1 - lat2) + Abs(lon1 - lon2)

\* geodesic(a, b).meters
Meters(lat1, lon1, lat2, lon2) == 1000 * Kilometers(lat1, lon1, lat2, lon2)

(* ------------------------------ loaders ------------------------------- *)
Indices(s) == [i \in 1..Len(s) |-> i]

\* PeakLoader.node: the node is appended unless one of the returns is taken
NodeKept(n) ==
    /\ n.natural = "peak"
    /\ n.ele.k # "none"
    /\ ParseFloat(n.ele).ok
    /\ n.valid

NodePeak(n) ==
    [lat |-> n.lat, lon |-> n.lon, ele |-> ParseFloat(n.ele).val,
     summit_cross |-> (Lower(n.cross) = "yes")]

load_peaks(file) ==
    LET kept == SelectSeq(file.nodes, NodeKept)
    IN [i \in 1..Len(kept) |-> NodePeak(kept[i])]

\* ViaFerrataLoader.way: scale None when the tag does not parse as int;
\* coords are the valid nodes; a way without valid node is not stored
WayCoords(w) == SelectSeq(w.nodes, LAMBDA n : n.valid)

WayKept(w) == w.highway = "via_ferrata" /\ WayCoords(w) # <<>>

WaySegment(w) ==
    LET c == WayCoords(w)
        s == ParseInt(w.scale)
    IN [coords |-> [i \in 1..Len(c) |-> <<c[i].lat, c[i].lon>>],
        none |-> ~s.ok,
        scale |-> IF s.ok THEN s.val ELSE 0]

load_via_ferrata(file) ==
    LET kept == SelectSeq(file.ways, WayKept)
    IN [i \in 1..Len(kept) |-> WaySegment(kept[i])]

(* ------------------------- compute_dominance -------------------------- *)
\* min(...) over a non-empty list, left to right
RECURSIVE MinOf(_)
MinOf(s) ==
    IF Len(s) = 1 THEN s[1]
    ELSE LET m == MinOf(Tail(s)) IN IF s[1] <= m THEN s[1] ELSE m

\* variant: summits of equal height count as higher
compute_dominance_OrEqual(all, peak) ==
    LET higher == SelectSeq(all, LAMBDA p : p.ele >= peak.ele)
    IN IF higher = <<>> THEN Inf
       ELSE MinOf([i \in 1..Len(higher) |->
                     Kilometers(peak.lat, peak.lon, higher[i].lat, higher[i].lon)])

compute_dominance(all, peak) ==
    LET higher == SelectSeq(all, LAMBDA p : p.ele > peak.ele)
    IN IF higher = <<>> THEN Inf
       ELSE MinOf([i \in 1..Len(higher) |->
                     Kilometers(peak.lat, peak.lon, higher[i].lat, higher[i].lon)])

(* -------------------------- is_reachable_via -------------------------- *)
\* inner loop: the first vertex within threshold_m returns True
RECURSIVE CoordScan(_, _, _, _)
CoordScan(peak, coords, i, threshold_m) ==
    IF i > Len(coords) THEN FALSE
    ELSE IF Meters(peak.lat, peak.lon, coords[i][1], coords[i][2]) <= threshold_m
         THEN TRUE
         ELSE CoordScan(peak, coords, i + 1, threshold_m)

\* variant: a segment without difficulty never qualifies
ScaleOk_NoneFails(seg, max_scale) == ~seg.none /\ seg.scale <= max_scale

\* seg['scale'] is None or seg['scale'] <= max_scale
ScaleOk(seg, max_scale) == seg.none \/ seg.scale <= max_scale

\* outer loop over the segments
RECURSIVE SegScan(_, _, _, _, _)
SegScan(peak, segs, j, max_scale, threshold_m) ==
    IF j > Len(segs) THEN FALSE
    ELSE IF ScaleOk(segs[j], max_scale)
              /\ CoordScan(peak, segs[j].coords, 1, threshold_m)
         THEN TRUE
         ELSE SegScan(peak, segs, j + 1, max_scale, threshold_m)

is_reachable_via(peak, segs, max_scale, threshold_m) ==
    SegScan(peak, segs, 1, max_scale, threshold_m)

(* ------------------------------ sorting ------------------------------- *)
\* s[:n]
Take(s, n) == SubSeq(s, 1, IF Len(s) < n THEN Len(s) ELSE n)

\* variant: equal distances end up in reverse input order
InsertByDist_Unstable(s, x) ==
    LET k == Cardinality({i \in 1..Len(s) : s[i].dist < x.dist})
    IN SubSeq(s, 1, k) \o <<x>> \o SubSeq(s, k + 1, Len(s))

\* list.sort(key=dist): stable, ascending
InsertByDist(s, x) ==
    LET k == Cardinality({i \in 1..Len(s) : s[i].dist <= x.dist})
    IN SubSeq(s, 1, k) \o <<x>> \o SubSeq(s, k + 1, Len(s))

RECURSIVE SortByDist(_)
SortByDist(s) ==
    IF s = <<>> THEN s
    ELSE InsertByDist(SortByDist(SubSeq(s, 1, Len(s) - 1)), s[Len(s)])

\* variant: reverse=True forgotten
InsertByDom_Ascending(s, x) ==
    LET k == Cardinality({i \in 1..Len(s) : s[i].dom <= x.dom})
    IN SubSeq(s, 1, k) \o <<x>> \o SubSeq(s, k + 1, Len(s))

\* list.sort(key=dom, reverse=True): stable, descending
InsertByDom(s, x) ==
    LET k == Cardinality({i \in 1..Len(s) : s[i].dom >= x.dom})
    IN SubSeq(s, 1, k) \o <<x>> \o SubSeq(s, k + 1, Len(s))

RECURSIVE SortByDomDesc(_)
SortByDomDesc(s) ==
    IF s = <<>> THEN s
    ELSE InsertByDom(SortByDomDesc(SubSeq(s, 1, Len(s) - 1)), s[Len(s)])

(* ----------------------------- run_query ------------------------------ *)
\* the numeric fields that were prompted for and did not parse
BadFields(in) ==
    IF ~ParseFloat(in.min_ele).ok THEN {"min_ele"}
    ELSE IF ~StartsWithY(in.via) THEN {}
    ELSE IF ~ParseFloat(in.threshold).ok THEN {"threshold"}
    ELSE IF ~ParseInt(in.max_scale).ok THEN {"max_scale"}
    ELSE {}

\* variant: an unparsable difficulty leaves the filter switched on
ViaOnly_KeepsOnBadScale(in) ==
    /\ StartsWithY(in.via)
    /\ ParseFloat(in.threshold).ok

\* the reachability filter survives only if both of its numbers parse
ViaOnly(in) ==
    /\ StartsWithY(in.via)
    /\ ParseFloat(in.threshold).ok
    /\ ParseInt(in.max_scale).ok

\* variant: loads whenever nothing is cached, requested or not
NeedLoad_Unrequested(via_only, segs) == segs = <<>>

\* step 3: if via_only and not vf_segments
NeedLoad(via_only, segs) == via_only /\ segs = <<>>

\* variant: only a missing result counts as not found
NotFound_OnlyNone(res) == res.k = "none"

\* step 4: res is None or res.latitude is None or res.longitude is None
NotFound(res) == res.k \in {"none", "nolat", "nolon"}

\* variant: strictly above the minimum height
BaseFilter_Strict(all, min_ele, cross_only) ==
    SelectSeq(Indices(all),
              LAMBDA i : all[i].ele > min_ele /\ (~cross_only \/ all[i].summit_cross))

\* step 5: filter on height and cross (candidates are indices into peaks)
BaseFilter(all, min_ele, cross_only) ==
    SelectSeq(Indices(all),
              LAMBDA i : all[i].ele >= min_ele /\ (~cross_only \/ all[i].summit_cross))

\* step 6: via_ferrata filter
ViaFilter(all, candidates, segs, max_scale, threshold_m) ==
    SelectSeq(candidates,
              LAMBDA i : is_reachable_via(all[i], segs, max_scale, threshold_m))

\* step 7: distances from the start, sorted
DistList(all, candidates, start) ==
    SortByDist([i \in 1..Len(candidates) |->
                  [dist |-> Kilometers(start[1], start[2],
                                       all[candidates[i]].lat, all[candidates[i]].lon),
                   p |-> candidates[i],
                   dom |-> 0]])

\* step 8, dominance branch: nearest20, dom_list, sort descending
DomList(all, dist_list) ==
    LET nearest20 == Take(dist_list, TopDominance)
    IN SortByDomDesc([i \in 1..Len(nearest20) |->
                        [dom |-> compute_dominance(all, all[nearest20[i].p]),
                         dist |-> nearest20[i].dist,
                         p |-> nearest20[i].p]])

\* step 8, else branch
Nearest10(dist_list) == Take(dist_list, TopNearest)

\* variant: the early return hands back an empty list
InvalidReturn_Empty(segs) == <<>>

\* "Ungueltige Hoehe": return vf_segments
InvalidReturn(segs) == segs

\* the locals of a run_query call at its return
NoQuery ==
    [outcome |-> "none", min_ele |-> 0, cross_only |-> FALSE, dominance |-> FALSE,
     via_req |-> FALSE, via_only |-> FALSE, threshold_m |-> 0, max_scale |-> 0,
     loaded |-> FALSE, start |-> <<0, 0>>, base |-> <<>>, candidates |-> <<>>,
     dist_list |-> <<>>, printed |-> <<>>, arg |-> <<>>, ret |-> <<>>,
     bad |-> {}, via_ran |-> FALSE, res |-> [k |-> "unasked", lat |-> 0, lon |-> 0]]

run_query(all, segs, in) ==
    LET min_p == ParseFloat(in.min_ele)
        via_only == ViaOnly(in)
        threshold_m == IF via_only THEN ParseFloat(in.threshold).val ELSE 0
        max_scale == IF via_only THEN ParseInt(in.max_scale).val ELSE 0
        load == NeedLoad(via_only, segs)
        segs2 == IF load THEN load_via_ferrata(map_file) ELSE segs
        start == <<in.res.lat, in.res.lon>>
        base == BaseFilter(all, min_p.val, StartsWithY(in.cross))
        candidates == IF via_only
                      THEN ViaFilter(all, base, segs2, max_scale, threshold_m)
                      ELSE base
        dist_list == DistList(all, candidates, start)
        asked == [NoQuery EXCEPT !.min_ele = min_p.val,
                                 !.cross_only = StartsWithY(in.cross),
                                 !.dominance = StartsWithY(in.dom),
                                 !.via_req = StartsWithY(in.via),
                                 !.via_only = via_only,
                                 !.threshold_m = threshold_m,
                                 !.max_scale = max_scale,
                                 !.loaded = load,
                                 !.bad = BadFields(in),
                                 !.arg = segs,
                                 !.res = in.res,
                                 !.ret = segs2]
    IN IF ~min_p.ok
       THEN [NoQuery EXCEPT !.outcome = "invalid", !.bad = BadFields(in),
                            !.arg = segs, !.ret = InvalidReturn(segs)]
       ELSE IF NotFound(in.res)
       THEN [asked EXCEPT !.outcome = "not_found"]
       ELSE IF candidates = <<>>
       THEN [asked EXCEPT !.outcome = "empty", !.start = start, !.base = base,
                          !.via_ran = via_only]
       ELSE [asked EXCEPT !.outcome = "ranked", !.start = start, !.base = base,
                          !.via_ran = via_only,
                          !.candidates = candidates, !.dist_list = dist_list,
                          !.printed = IF StartsWithY(in.dom)
                                      THEN DomList(all, dist_list)
                                      ELSE Nearest10(dist_list)]

(* ------------------------------ map files ----------------------------- *)
Node(natural, ele, valid, lat, lon, cross) ==
    [natural |-> natural, ele |-> ele, valid |-> valid, lat |-> lat, lon |-> lon,
     cross |-> cross]

SmallNodes ==
    {Node("peak", IntLit(2), TRUE, 0, 0, "yes"),
     Node("peak", DecLit(-1), TRUE, 1, 0, ""),
     Node("peak", IntLit(3), TRUE, 0, 2, "YES")}

SmallNodeFiles == UNION {[1..n -> SmallNodes] : n \in 0..MaxSmallNodes}

\* nodes that PeakLoader.node drops, one per return
JunkNodes ==
    <<Node("saddle", IntLit(4), TRUE, 0, 0, "yes"),
      Node("peak", Text, TRUE, 1, 1, "yes"),
      Node("peak", NoTag, TRUE, 0, 0, "yes"),
      Node("peak", IntLit(4), FALSE, 0, 0, "yes")>>

\* a large file: LargeN summits spread over a 5 x 4 grid, then the junk
LargeNodes(variant) ==
    [i \in 1..LargeN |->
        Node("peak",
             IF i = 5 THEN DecLit(-2)
             ELSE IF variant = 1 THEN IntLit(i % 5) ELSE IntLit(1),
             TRUE, (i * 3) % 5, (i + (i \div 7)) % 4,
             IF i % 2 = 0 THEN "Yes" ELSE "no")]
    \o JunkNodes

LargeNodeFiles == {LargeNodes(1), LargeNodes(2)}

WayNode(valid, lat, lon) == [valid |-> valid, lat |-> lat, lon |-> lon]

Way(highway, scale, nodes) == [highway |-> highway, scale |-> scale, nodes |-> nodes]

SmallWays ==
    {Way("via_ferrata", IntLit(3), <<WayNode(TRUE, 0, 0)>>),
     Way("via_ferrata", Text, <<WayNode(FALSE, 0, 0), WayNode(TRUE, 1, 1)>>),
     Way("via_ferrata", IntLit(2), <<WayNode(TRUE, 0, 3)>>)}

SmallWayFiles == UNION {[1..n -> SmallWays] : n \in 0..MaxWays}

\* ways that ViaFerrataLoader.way drops, around two that it keeps
MixedWays ==
    <<Way("path", IntLit(1), <<WayNode(TRUE, 0, 0)>>),
      Way("via_ferrata", NoTag, <<WayNode(TRUE, 0, 3), WayNode(TRUE, 1, 3)>>),
      Way("via_ferrata", IntLit(1), <<WayNode(FALSE, 0, 2)>>),
      Way("via_ferrata", IntLit(3), <<WayNode(TRUE, 3, 1)>>)>>

MapFiles ==
    {[nodes |-> n, ways |-> w] : n \in SmallNodeFiles, w \in SmallWayFiles}
    \cup {[nodes |-> n, ways |-> w] :
            n \in LargeNodeFiles, w \in SmallWayFiles \cup {MixedWays}}

NoFile == [nodes |-> <<>>, ways |-> <<>>]

(* --------------------------- operator input --------------------------- *)
Answers == {"y", "n"}

Resolved == {[k |-> "none", lat |-> 0, lon |-> 0],
             [k |-> "nolat", lat |-> 0, lon |-> 0],
             [k |-> "ok", lat |-> 0, lon |-> 0],
             [k |-> "ok", lat |-> 1, lon |-> 2]}

AllInputs ==
    [min_ele : {Text, IntLit(0), DecLit(2)}, cross : Answers, dom : Answers,
     via : Answers, threshold : {Text, IntLit(1000)},
     max_scale : {DecLit(2), IntLit(2)}, res : Resolved]

\* what is not prompted for is left at a fixed value
Unread(in) ==
    [in EXCEPT !.cross = "n", !.dom = "n", !.via = "n", !.threshold = Text,
               !.max_scale = DecLit(2), !.res = [k |-> "none", lat |-> 0, lon |-> 0]]

QueryInputs ==
    {in \in AllInputs :
        /\ ~ParseFloat(in.min_ele).ok => in = Unread(in)
        /\ ~StartsWithY(in.via) => in.threshold = Text
        /\ ~(StartsWithY(in.via) /\ ParseFloat(in.threshold).ok)
              => in.max_scale = DecLit(2)}

(* ------------------------------ actions ------------------------------- *)
Init ==
    /\ pc = "main"
    /\ map_file = NoFile
    /\ peaks = <<>>
    /\ vf_segments = <<>>
    /\ loads = 0
    /\ queries = 0
    /\ q = NoQuery

\* main() up to the loop: map file, eager-load answer, load_peaks, eager load
Main ==
    /\ pc = "main"
    /\ \E f \in MapFiles, use_via \in Answers :
          /\ map_file' = f
          /\ peaks' = load_peaks(f)
          /\ vf_segments' = IF StartsWithY(use_via) THEN load_via_ferrata(f) ELSE <<>>
          /\ loads' = IF StartsWithY(use_via) THEN 1 ELSE 0
    /\ pc' = "query"
    /\ UNCHANGED <<queries, q>>

\* vf_segments = run_query(peaks, vf_segments)
RunQuery ==
    /\ pc = "query"
    /\ \E in \in QueryInputs :
          LET r == run_query(peaks, vf_segments, in)
          IN /\ q' = r
             /\ vf_segments' = r.ret
             /\ loads' = IF r.loaded THEN loads + 1 ELSE loads
    /\ queries' = queries + 1
    /\ pc' = "again"
    /\ UNCHANGED <<map_file, peaks>>

\* "Moechtest du eine weitere Abfrage durchfuehren?"
Again ==
    /\ pc = "again"
    /\ \E a \in Answers :
          IF StartsWithY(a)
          THEN queries < MaxQueries /\ pc' = "query"
          ELSE pc' = "done"
    /\ q' = NoQuery
    /\ UNCHANGED <<map_file, peaks, vf_segments, loads, queries>>

\* prompt(): EOFError ends the process with sys.exit(1), whichever prompt
\* it is (all prompts of run_query come before its first effect)
PromptEOF ==
    /\ pc \in {"main", "query", "again"}
    /\ pc' = "eof"
    /\ q' = NoQuery
    /\ UNCHANGED <<map_file, peaks, vf_segments, loads, queries>>

Next == Main \/ RunQuery \/ Again \/ PromptEOF

Spec == Init /\ [][Next]_vars

(* ============================== claims ================================ *)
Range(s) == {s[i] : i \in DOMAIN s}

Returned == pc = "again"

\* some segment of difficulty absent or <= max_scale has a vertex within
\* threshold_m of the summit
Reaches(peak, segs, max_scale, threshold_m) ==
    \E s \in 1..Len(segs) :
       /\ segs[s].none \/ segs[s].scale <= max_scale
       /\ \E v \in 1..Len(segs[s].coords) :
             Meters(peak.lat, peak.lon, segs[s].coords[v][1], segs[s].coords[v][2])
               <= threshold_m

\* the summits that pass height, cross and (if still requested) reachability,
\* stated on the dataset and the cache the call ended with
Passing ==
    {i \in 1..Len(peaks) :
        /\ peaks[i].ele >= q.min_ele
        /\ q.cross_only => peaks[i].summit_cross
        /\ q.via_only => Reaches(peaks[i], q.ret, q.max_scale, q.threshold_m)}

\* distance of summit i from the start point of the query
DistOf(i) == Kilometers(q.start[1], q.start[2], peaks[i].lat, peaks[i].lon)

\* proximity order, equal distances in dataset order
Nearer(a, b) == DistOf(a) < DistOf(b) \/ (DistOf(a) = DistOf(b) /\ a < b)

\* the n nearest candidates
NearestSet(n) ==
    {c \in Range(q.candidates) :
        Cardinality({d \in Range(q.candidates) : Nearer(d, c)}) < n}

Higher(i) == {j \in 1..Len(peaks) : peaks[j].ele > peaks[i].ele}

Between(i, j) == Kilometers(peaks[i].lat, peaks[i].lon, peaks[j].lat, peaks[j].lon)

\* d is the least distance from summit i to a strictly higher summit of the
\* full dataset, +infinity exactly when there is none
IsDominance(i, d) ==
    IF Higher(i) = {} THEN d = Inf
    ELSE /\ d < Inf
         /\ \E j \in Higher(i) : Between(i, j) = d
         /\ \A j \in Higher(i) : Between(i, j) >= d

\* C1: load_via_ferrata is invoked at most once in a process run, whatever
\* the dataset (also one without any route segment).
C1_LoaderAtMostOnce == loads <= 1

\* C2 (as claimed): a numeric field that fails to parse aborts the query:
\* nothing is filtered, ranked or output.
C2_AnyBadFieldAborts ==
    (Returned /\ q.bad # {}) =>
        /\ q.outcome = "invalid"
        /\ q.printed = <<>>

\* C2 (amended): an unparsable minimum height aborts the query before any
\* effect; an unparsable threshold or difficulty only switches the
\* reachability filter off (no load, no reachability filtering) and the
\* query goes on with the base filter and the ranking.
C2_BadFieldHandling ==
    Returned =>
        /\ "min_ele" \in q.bad =>
              /\ q.outcome = "invalid"
              /\ q.printed = <<>> /\ q.base = <<>> /\ q.dist_list = <<>>
              /\ ~q.loaded /\ q.ret = q.arg
        /\ q.bad \cap {"threshold", "max_scale"} # {} =>
              /\ q.via_req /\ ~q.via_only /\ ~q.via_ran /\ ~q.loaded
              /\ q.ret = q.arg
              /\ q.outcome \in {"not_found", "empty", "ranked"}
              /\ q.res.k = "ok" =>
                    /\ Range(q.base) = Passing
                    /\ q.outcome = "ranked" <=> Passing # {}
                    /\ q.outcome = "ranked" =>
                          q.candidates = q.base /\ q.printed # <<>>

C2_Witness ==
    /\ Returned
    /\ "max_scale" \in q.bad
    /\ q.outcome = "ranked"
    /\ q.arg = <<>>

\* C7 (as claimed): with minimum height 0 and no cross filter the base
\* filter keeps every loaded summit.
C7_MinZeroKeepsAll ==
    (Returned /\ q.outcome \in {"empty", "ranked"}
       /\ q.min_ele = 0 /\ ~q.cross_only)
    => q.base = Indices(peaks)

\* C7 (amended): with minimum height 0 and no cross filter the base filter
\* keeps, in dataset order, exactly the summits whose height is >= 0; it
\* equals the full dataset exactly when every loaded summit is >= 0.
C7_MinZeroKeepsNonNegative ==
    (Returned /\ q.outcome \in {"empty", "ranked"}
       /\ q.min_ele = 0 /\ ~q.cross_only)
    => /\ Range(q.base) = {i \in 1..Len(peaks) : peaks[i].ele >= 0}
       /\ \A a, b \in 1..Len(q.base) : a < b => q.base[a] < q.base[b]
       /\ q.base = Indices(peaks) <=> \A i \in 1..Len(peaks) : peaks[i].ele >= 0

C7_Witness ==
    /\ Returned /\ q.outcome = "ranked"
    /\ q.min_ele = 0 /\ ~q.cross_only
    /\ \E i \in 1..Len(peaks) : peaks[i].ele < 0
    /\ \E i \in Range(q.base) : peaks[i].ele = 0

\* C9 (as claimed): the lazy load belongs to the reachability stage: only a
\* query that reaches that stage with a non-empty base result triggers it.
C9_LoadOnlyAtReachStage ==
    (Returned /\ q.loaded) => (q.via_ran /\ q.base # <<>>)

\* C9 (amended): base filter, reachability filter and ranking run in that
\* order and an empty candidate list ends the query without ranking; the
\* lazy load comes before resolution and base filter and is triggered by
\* exactly the queries whose reachability request survives parsing while
\* nothing is cached, also by one abandoned on resolution failure or one
\* whose base filter keeps no summit.
C9_LoadBeforeResolution ==
    Returned =>
        /\ q.loaded <=> (q.via_only /\ q.arg = <<>>)
        /\ q.loaded => q.ret = load_via_ferrata(map_file)
        /\ q.via_ran <=> (q.via_only /\ q.res.k = "ok")
        /\ Range(q.candidates) \subseteq Range(q.base)
        /\ {e.p : e \in Range(q.dist_list)} = Range(q.candidates)
        /\ {e.p : e \in Range(q.printed)} \subseteq Range(q.candidates)
        /\ q.outcome = "empty" => (q.dist_list = <<>> /\ q.printed = <<>>)

C9_Witness ==
    /\ Returned
    /\ q.loaded
    /\ q.outcome = "not_found"
    /\ q.ret # <<>>

\* C8: a not-found answer of the resolver and an empty filter result both
\* end the query without any ranked entry, and the process goes on to the
\* "another query?" prompt.
C8_NonFatal ==
    (q.outcome \notin {"none", "invalid"}
       /\ (q.res.k # "ok" \/ Passing = {}))
    => /\ pc = "again"
       /\ q.printed = <<>>
       /\ q.dist_list = <<>>
       /\ q.outcome = (IF q.res.k # "ok" THEN "not_found" ELSE "empty")
       /\ ENABLED Again

C8_Witness ==
    /\ Returned
    /\ q.outcome = "empty"
    /\ q.base # <<>>
    /\ queries < MaxQueries

\* C10: no query changes the loaded summits, and a non-empty cached
\* route-segment collection is handed back unchanged by every later query.
C10_Frame ==
    [][/\ pc # "main" => peaks' = peaks
       /\ vf_segments # <<>> => vf_segments' = vf_segments]_vars

C10_Witness ==
    /\ Returned
    /\ queries = 2
    /\ q.arg # <<>>
    /\ q.via_only
    /\ q.outcome = "invalid" \/ q.outcome = "ranked"

\* C3: for every summit of the dataset a query is about to run on,
\* compute_dominance is the least distance to a strictly higher summit of the
\* full dataset (+infinity exactly when there is none; equal height never
\* counts), and run_query evaluates it on the full dataset.
C3_Dominance ==
    /\ pc = "query" =>
          \A i \in 1..Len(peaks) : IsDominance(i, compute_dominance(peaks, peaks[i]))
    /\ (Returned /\ q.dominance /\ q.outcome = "ranked")
         => \A e \in Range(q.printed) : IsDominance(e.p, e.dom)

C3_Witness ==
    /\ Returned /\ q.dominance /\ q.outcome = "ranked"
    /\ \E e \in Range(q.printed) :
          /\ e.dom < Inf
          /\ \A c \in Range(q.candidates) :
                peaks[c].ele > peaks[e.p].ele => Between(e.p, c) > e.dom
          /\ \E j \in 1..Len(peaks) :
                j # e.p /\ peaks[j].ele = peaks[e.p].ele /\ Between(e.p, j) < e.dom
    /\ \E e \in Range(q.printed) : e.dom = Inf

\* C4: with dominance requested the result is the 20 nearest candidates (all
\* if fewer), each with its own distance, in order of non-increasing
\* dominance, +infinity first.
C4_DominanceRanking ==
    (Returned /\ q.dominance /\ q.outcome = "ranked") =>
        /\ Len(q.printed) = Cardinality(NearestSet(TopDominance))
        /\ Len(q.printed) =
             (IF Len(q.candidates) < 20 THEN Len(q.candidates) ELSE 20)
        /\ {e.p : e \in Range(q.printed)} = NearestSet(TopDominance)
        /\ \A e \in Range(q.printed) : e.dist = DistOf(e.p)
        /\ \A a, b \in 1..Len(q.printed) :
              a < b => /\ q.printed[a].dom >= q.printed[b].dom
                       /\ q.printed[b].dom = Inf => q.printed[a].dom = Inf

C4_Witness ==
    /\ Returned /\ q.dominance /\ q.outcome = "ranked"
    /\ Len(q.candidates) > 20
    /\ \E e \in Range(q.printed) : e.dom = Inf
    /\ \E e \in Range(q.printed) : e.dom < Inf
    /\ \E a, b \in 1..Len(q.printed) : a < b /\ q.printed[a].dist > q.printed[b].dist

\* C5: without dominance the result is the 10 nearest candidates (all if
\* fewer) by non-decreasing distance, equal distances in dataset order, and
\* nothing left out is nearer than the last entry.
C5_ProximityRanking ==
    (Returned /\ ~q.dominance /\ q.outcome = "ranked") =>
        /\ Len(q.printed) =
             (IF Len(q.candidates) < 10 THEN Len(q.candidates) ELSE 10)
        /\ {e.p : e \in Range(q.printed)} = NearestSet(TopNearest)
        /\ \A e \in Range(q.printed) : e.dist = DistOf(e.p)
        /\ \A a, b \in 1..Len(q.printed) :
              a < b => /\ q.printed[a].dist <= q.printed[b].dist
                       /\ q.printed[a].p # q.printed[b].p
                       /\ q.printed[a].dist = q.printed[b].dist
                            => q.printed[a].p < q.printed[b].p
        /\ \A c \in Range(q.candidates) \ {e.p : e \in Range(q.printed)} :
              DistOf(c) >= q.printed[Len(q.printed)].dist

C5_Witness ==
    /\ Returned /\ ~q.dominance /\ q.outcome = "ranked"
    /\ Len(q.candidates) > 10
    /\ \E a \in 1..(Len(q.printed) - 1) : q.printed[a].dist = q.printed[a + 1].dist
    /\ \E c \in Range(q.candidates) \ {e.p : e \in Range(q.printed)} :
          DistOf(c) = q.printed[Len(q.printed)].dist

\* C6: on the summits and cached segments a query is about to run on,
\* is_reachable_via holds exactly when a segment of difficulty absent or
\* <= max_scale has a vertex within the threshold, and the reachability
\* filter keeps exactly those base candidates.
C6_Reachability ==
    /\ pc = "query" =>
          \A i \in 1..Len(peaks), ms \in 0..3, th \in {0, 1000, 2000} :
             is_reachable_via(peaks[i], vf_segments, ms, th)
               <=> Reaches(peaks[i], vf_segments, ms, th)
    /\ (Returned /\ q.via_ran) =>
          /\ Range(q.base) =
               {i \in 1..Len(peaks) :
                   peaks[i].ele >= q.min_ele /\ (q.cross_only => peaks[i].summit_cross)}
          /\ q.outcome = "ranked" =>
               Range(q.candidates) =
                 {i \in Range(q.base) :
                     Reaches(peaks[i], q.ret, q.max_scale, q.threshold_m)}
          /\ q.outcome = "empty" =>
               \A i \in Range(q.base) :
                  ~Reaches(peaks[i], q.ret, q.max_scale, q.threshold_m)

C6_Witness ==
    /\ Returned /\ q.via_ran /\ q.outcome = "ranked"
    /\ \E i \in Range(q.base) \ Range(q.candidates) :
          \E s \in 1..Len(q.ret) :
             /\ ~q.ret[s].none /\ q.ret[s].scale > q.max_scale
             /\ \E v \in 1..Len(q.ret[s].coords) :
                   Meters(peaks[i].lat, peaks[i].lon,
                          q.ret[s].coords[v][1], q.ret[s].coords[v][2]) = 0
    /\ \E i \in Range(q.candidates) :
          \A s \in 1..Len(q.ret) :
             (\E v \in 1..Len(q.ret[s].coords) :
                 Meters(peaks[i].lat, peaks[i].lon,
                        q.ret[s].coords[v][1], q.ret[s].coords[v][2])
                   <= q.threshold_m)
             => q.ret[s].none

====
